---- MODULE Spec2Model ----
(***************************************************************************)
(* Model of the matching game of src/src/lib.rs: the Model struct, the     *)
(* update function (one action per Msg variant) and the click routing of   *)
(* the view functions.                                                     *)
(***************************************************************************)
EXTENDS Integers, Sequences, FiniteSets, TLC

\* ---------------------------------------------------------------- bounds
\* Number of ids Ulid::new() hands out in one behaviour of Spec (update called
\* with any Msg) and of ViewSpec (the Msgs the view emits).
MaxIds == 2
\* The same for DeckSpec and BuildSpec, where no card of the board is clicked.
MaxDeck == 3
\* Number of image ingestions (perform_cmd futures) running at once.
MaxInflight == 1
\* Length of the FileList of one Drop.
MaxFiles == 1
\* The same two for StoreSpec: files of one Drop and ingestions running at once.
MaxStoreInflight == 2

\* ---------------------------------------------------------------- values
\* Option<T>: None, Some(x)
None == <<>>
Some(x) == <<x>>

FaceUp == "FaceUp"
FaceDown == "FaceDown"

\* Ulid values, in the order Ulid::new() creates them.
Ulids == 0..(MaxIds - 1)
\* Inputs of the text field of a card row (the empty string included).
Texts == {"", "cat"}
\* The data URI an ingestion ends with.
PhotoUrl == "data:image/png;base64"
\* The data URI of an ingestion whose write_to returned Err: the format is one
\* the encoder does not write (format_string "image"), blob_buf is empty.
EmptyPhotoUrl == "data:image;base64,"
\* Inputs of the text field in StoreSpec: two non-empty texts.
StoreTexts == {"", "cat", "dog"}
\* File names of a dropped FileList.
FileNames == {"a.png", "b.GIF", "c.txt"}
\* GuessCard indices (0-based, as in the source): every slot of the largest
\* board and indices past it.
MaxIndex == 2 * MaxIds
Indices == 0..MaxIndex

\* Model.drop_zone_active, the highlight of the drop zone, and the Msgs that
\* write nothing else (DragEnter, DragOver, DragLeave) are left out: update
\* never reads the field.
VARIABLES
    game_started,      \* Model.game_started
    words_list,        \* Model.words_list : BTreeMap<Ulid, Card>
    board,             \* Model.board : Vec<PlayedCard>
    last,              \* Model.last : Option<Ulid>
    needs_reset,       \* Model.needs_reset
    nextUlid,          \* the ids Ulid::new() has handed out so far
    inflight,          \* futures given to orders.perform_cmd, not finished
    panicked,          \* update hit an out-of-bounds board index
    msg                \* the variant of the Msg update handled last

vars == <<game_started, words_list, board, last, needs_reset,
          nextUlid, inflight, panicked, msg>>

\* ---------------------------------------------------------------- helpers
Card(id, text, photo) == [id |-> id, text |-> text, photo |-> photo]

PlayedCard(card) == [card |-> card, displayed |-> FaceDown, matched |-> FALSE]

\* BTreeMap::values(): the cards in ascending key order.
RECURSIVE Values(_, _)
Values(map, keys) ==
    IF keys = {} THEN <<>>
    ELSE LET k == CHOOSE x \in keys : \A y \in keys : x <= y
         IN <<map[k]>> \o Values(map, keys \ {k})

\* A skip test that looks at the text only.
Eligible_TextOnly(card) == card.text # None

\* The card has something to show (the test of the skip in StartGame).
Eligible(card) == ~(card.text = None /\ card.photo = None)

\* The loop of StartGame: two PlayedCards per card that is not skipped.
RECURSIVE NewBoard(_)
NewBoard(cards) ==
    IF cards = <<>> THEN <<>>
    ELSE LET c == Head(cards)
         IN (IF Eligible(c) THEN <<PlayedCard(c), PlayedCard(c)>> ELSE <<>>)
            \o NewBoard(Tail(cards))

\* seq without its i-th element.
Remove(seq, i) == SubSeq(seq, 1, i - 1) \o SubSeq(seq, i + 1, Len(seq))

\* SliceRandom::shuffle: every permutation of the slice is a possible result.
\* The set of all orderings of seq, built element by element; equal elements
\* (the two PlayedCards of one card) give the same ordering only once.
RECURSIVE Shuffle(_)
Shuffle(seq) ==
    IF seq = <<>> THEN {<<>>}
    ELSE UNION {{<<seq[i]>> \o r : r \in Shuffle(Remove(seq, i))} :
                  i \in {k \in 1..Len(seq) : \A j \in 1..(k - 1) : seq[j] # seq[k]}}

\* all_face_down with a loop that turns every card over.
FaceDownAll_Toggle(b) ==
    [i \in 1..Len(b) |->
        [b[i] EXCEPT !.displayed = IF @ = FaceUp THEN FaceDown ELSE FaceUp]]

\* all_face_down with a loop that also takes the match back.
FaceDownAll_ClearsMatched(b) ==
    [i \in 1..Len(b) |-> [b[i] EXCEPT !.displayed = FaceDown, !.matched = FALSE]]

\* The loop of Model::all_face_down applied to a board.
FaceDownAll(b) == [i \in 1..Len(b) |-> [b[i] EXCEPT !.displayed = FaceDown]]

\* A correct-guess loop that writes matched on every slot: true for the
\* guessed card, false for the others.
MarkMatched_Exclusive(b, just_guessed, last_guessed) ==
    [i \in 1..Len(b) |->
        IF b[i].card.id = just_guessed \/ b[i].card.id = last_guessed
        THEN [b[i] EXCEPT !.displayed = FaceUp, !.matched = TRUE]
        ELSE [b[i] EXCEPT !.matched = FALSE]]

\* A correct-guess loop that stops at the first slot of the card.
MarkMatched_FirstSlot(b, just_guessed, last_guessed) ==
    [i \in 1..Len(b) |->
        IF /\ b[i].card.id = just_guessed \/ b[i].card.id = last_guessed
           /\ \A j \in 1..(i - 1) : b[j].card.id # b[i].card.id
        THEN [b[i] EXCEPT !.displayed = FaceUp, !.matched = TRUE]
        ELSE b[i]]

\* A correct guess that takes the slots of the pair off the board.
MarkMatched_Removes(b, just_guessed, last_guessed) ==
    SelectSeq(b, LAMBDA slot : slot.card.id # just_guessed /\ slot.card.id # last_guessed)

\* The correct-guess loop without the write of displayed.
MarkMatched_NoFlip(b, just_guessed, last_guessed) ==
    [i \in 1..Len(b) |->
        IF b[i].card.id = just_guessed \/ b[i].card.id = last_guessed
        THEN [b[i] EXCEPT !.matched = TRUE]
        ELSE b[i]]

\* The loop of the correct-guess branch of GuessCard.
MarkMatched(b, just_guessed, last_guessed) ==
    [i \in 1..Len(b) |->
        IF b[i].card.id = just_guessed \/ b[i].card.id = last_guessed
        THEN [b[i] EXCEPT !.displayed = FaceUp, !.matched = TRUE]
        ELSE b[i]]

\* A flip that turns up every slot of the clicked card.
FlipUp_Twins(b, index) ==
    [i \in 1..Len(b) |->
        IF b[i].card.id = b[index + 1].card.id
        THEN [b[i] EXCEPT !.displayed = FaceUp]
        ELSE b[i]]

\* model.board[index].displayed = CardState::FaceUp (index 0-based)
FlipUp(b, index) == [b EXCEPT ![index + 1].displayed = FaceUp]

\* A pending guess that remembers the slot instead of the card.
RememberGuess_Index(b, index) == Some(index)

\* Some(model.board[index].card.id), the value written to model.last
RememberGuess(b, index) == Some(b[index + 1].card.id)

\* show_card without the test of matched.
ShowCard_DisplayedOnly(played_card) == played_card.displayed = FaceUp

\* show_card of print_card
ShowCard(played_card) == played_card.displayed = FaceUp \/ played_card.matched

\* file.name().to_lowercase()
ToLowercase(name) ==
    CASE name = "a.png" -> "a.png"
      [] name = "b.GIF" -> "b.gif"
      [] name = "c.txt" -> "c.txt"

\* ends_with(".png") || ends_with(".gif") of the lowercased name
Accepted(name) == ToLowercase(name) \in {"a.png", "b.gif"}

\* The filter_map of Drop: the files that are handed to perform_cmd.
RECURSIVE FilterFiles(_)
FilterFiles(files) ==
    IF files = <<>> THEN <<>>
    ELSE (IF Accepted(Head(files)) THEN <<Head(files)>> ELSE <<>>)
         \o FilterFiles(Tail(files))

\* The file lists of at most maxFiles files.
FileListsUpTo(maxFiles) == UNION {[1..n -> FileNames] : n \in 0..maxFiles}

FileLists == FileListsUpTo(MaxFiles)

\* ---------------------------------------------------------------- Init
\* Model::default()
Init ==
    /\ game_started = FALSE
    /\ words_list = <<>>
    /\ board = <<>>
    /\ last = None
    /\ needs_reset = FALSE
    /\ nextUlid = 0
    /\ inflight = 0
    /\ panicked = FALSE
    /\ msg = "Init"

\* ---------------------------------------------------------------- update
\* The body of Msg::NewCard: photo is None for Empty, Some(content) for
\* OnePhoto. maxIds bounds the ids of the behaviour.
InsertNewCard(photo, maxIds) ==
    /\ nextUlid < maxIds
    /\ LET new_id == nextUlid
           new_card == Card(new_id, None, photo)
       IN words_list' =
            IF new_id \in DOMAIN words_list THEN words_list
            ELSE [k \in DOMAIN words_list \cup {new_id} |->
                    IF k = new_id THEN new_card ELSE words_list[k]]
    /\ nextUlid' = nextUlid + 1

\* Msg::NewCard(NewCardType::Empty)
NewCardEmpty(maxIds) ==
    /\ ~panicked
    /\ InsertNewCard(None, maxIds)
    /\ msg' = "NewCard"
    /\ UNCHANGED <<game_started, board, last, needs_reset, inflight, panicked>>

\* The future of one dropped file ends and the Msg::NewCard(OnePhoto(url)) it
\* returns is handled.
NewCardOnePhoto(maxIds) ==
    /\ ~panicked
    /\ inflight > 0
    /\ inflight' = inflight - 1
    /\ InsertNewCard(Some(PhotoUrl), maxIds)
    /\ msg' = "NewCard"
    /\ UNCHANGED <<game_started, board, last, needs_reset, panicked>>

\* The future of one dropped file whose pic.write_to returns Err: the Result is
\* bound to _garbage, the future goes on and the Msg::NewCard(OnePhoto(url)) it
\* returns, made of the bytes written so far, is handled.
NewCardEncodeFailed(maxIds) ==
    /\ ~panicked
    /\ inflight > 0
    /\ inflight' = inflight - 1
    /\ InsertNewCard(Some(EmptyPhotoUrl), maxIds)
    /\ msg' = "NewCard"
    /\ UNCHANGED <<game_started, board, last, needs_reset, panicked>>

\* The future of one dropped file fails one of its expect() calls: it returns
\* no Msg.
IngestFail ==
    /\ ~panicked
    /\ inflight > 0
    /\ inflight' = inflight - 1
    /\ UNCHANGED <<game_started, words_list, board, last, needs_reset,
                   nextUlid, panicked, msg>>

\* UpdateCardText without the test of text.is_empty(): the empty text clears
\* the text of the card.
UpdateCardTextMsg_Clears(id, text) ==
    /\ ~panicked
    /\ words_list' =
         IF id \in DOMAIN words_list
         THEN [words_list EXCEPT ![id].text = IF text = "" THEN None ELSE Some(text)]
         ELSE words_list
    /\ msg' = "UpdateCardText"
    /\ UNCHANGED <<game_started, board, last, needs_reset, nextUlid, inflight, panicked>>

\* Msg::UpdateCardText(id, text)
UpdateCardTextMsg(id, text) ==
    /\ ~panicked
    /\ words_list' =
         IF text # "" /\ id \in DOMAIN words_list
         THEN [words_list EXCEPT ![id].text = Some(text)]
         ELSE words_list
    /\ msg' = "UpdateCardText"
    /\ UNCHANGED <<game_started, board, last, needs_reset, nextUlid, inflight, panicked>>

\* DeleteCard with the test of the key inverted: the card of id alone is kept.
DeleteCardMsg_Retain(id) ==
    /\ ~panicked
    /\ words_list' = [k \in DOMAIN words_list \cap {id} |-> words_list[k]]
    /\ msg' = "DeleteCard"
    /\ UNCHANGED <<game_started, board, last, needs_reset, nextUlid, inflight, panicked>>

\* Msg::DeleteCard(id): words_list.remove(&id), the result is not looked at.
DeleteCardMsg(id) ==
    /\ ~panicked
    /\ words_list' = [k \in DOMAIN words_list \ {id} |-> words_list[k]]
    /\ msg' = "DeleteCard"
    /\ UNCHANGED <<game_started, board, last, needs_reset, nextUlid, inflight, panicked>>

\* all_face_down without the write of last.
AllFaceDown_KeepsLast ==
    /\ board' = FaceDownAll(board)
    /\ needs_reset' = FALSE
    /\ UNCHANGED last

\* Model::all_face_down
AllFaceDown ==
    /\ board' = FaceDownAll(board)
    /\ needs_reset' = FALSE
    /\ last' = None

\* Msg::GuessCard(index), index 0-based: board[index] is board[index + 1] here.
GuessCardMsg(index) ==
    /\ ~panicked
    /\ IF needs_reset
       THEN /\ AllFaceDown
            /\ UNCHANGED panicked
       ELSE IF index >= Len(board)
       THEN \* model.board[index] panics in either branch, before any write
            /\ panicked' = TRUE
            /\ UNCHANGED <<board, last, needs_reset>>
       ELSE IF last # None
       THEN LET last_guessed == last[1]
                just_guessed == board[index + 1].card.id
            IN IF just_guessed = last_guessed
               THEN /\ board' = MarkMatched(board, just_guessed, last_guessed)
                    /\ last' = None
                    /\ UNCHANGED <<needs_reset, panicked>>
               ELSE /\ board' = FlipUp(board, index)
                    /\ needs_reset' = TRUE
                    /\ UNCHANGED <<last, panicked>>
       ELSE /\ last' = RememberGuess(board, index)
            /\ board' = FlipUp(board, index)
            /\ UNCHANGED <<needs_reset, panicked>>
    /\ msg' = "GuessCard"
    /\ UNCHANGED <<game_started, words_list, nextUlid,
                   inflight>>

\* The guard of StartGame: the handler returns at once when this holds.
TooFewCards(map) == Cardinality(DOMAIN map) < 2

StartGameMsg ==
    /\ ~panicked
    /\ IF TooFewCards(words_list)
       THEN UNCHANGED <<board, game_started>>
       ELSE /\ board' \in Shuffle(NewBoard(Values(words_list, DOMAIN words_list)))
            /\ game_started' = TRUE
    /\ msg' = "StartGame"
    /\ UNCHANGED <<words_list, last, needs_reset, nextUlid,
                   inflight, panicked>>

\* ExitGame without the write of words_list.
ExitGameMsg_KeepsDeck ==
    /\ ~panicked
    /\ UNCHANGED words_list
    /\ game_started' = FALSE
    /\ board' = <<>>
    /\ last' = None
    /\ needs_reset' = FALSE
    /\ msg' = "ExitGame"
    /\ UNCHANGED <<nextUlid, inflight, panicked>>

ExitGameMsg ==
    /\ ~panicked
    /\ words_list' = <<>>
    /\ game_started' = FALSE
    /\ board' = <<>>
    /\ last' = None
    /\ needs_reset' = FALSE
    /\ msg' = "ExitGame"
    /\ UNCHANGED <<nextUlid, inflight, panicked>>

ResetClickMsg ==
    /\ ~panicked
    /\ AllFaceDown
    /\ msg' = "ResetClick"
    /\ UNCHANGED <<game_started, words_list, nextUlid,
                   inflight, panicked>>

\* Msg::Drop(file_list): one perform_cmd per file with an accepted name.
\* maxInflight bounds the futures that run at one time.
DropMsg(file_list, maxInflight) ==
    /\ ~panicked
    /\ inflight + Len(FilterFiles(file_list)) <= maxInflight
    /\ inflight' = inflight + Len(FilterFiles(file_list))
    /\ msg' = "Drop"
    /\ UNCHANGED <<game_started, words_list, board, last, needs_reset,
                   nextUlid, panicked>>

\* ---------------------------------------------------------------- Spec
\* update called with any Msg in any state (the engine without the view).
NewCard == NewCardEmpty(MaxIds)
NewCardDone == NewCardOnePhoto(MaxIds)
IngestAbandoned == IngestFail
UpdateCardText == \E id \in Ulids, text \in Texts : UpdateCardTextMsg(id, text)
DeleteCard == \E id \in Ulids : DeleteCardMsg(id)
GuessCard == \E index \in Indices : GuessCardMsg(index)
StartGame == StartGameMsg
ExitGame == ExitGameMsg
ResetClick == ResetClickMsg
Drop == \E file_list \in FileLists : DropMsg(file_list, MaxInflight)

Next ==
    \/ NewCard
    \/ NewCardDone
    \/ IngestAbandoned
    \/ UpdateCardText
    \/ DeleteCard
    \/ GuessCard
    \/ StartGame
    \/ ExitGame
    \/ ResetClick
    \/ Drop

Spec == Init /\ [][Next]_vars

\* ---------------------------------------------------------------- ViewSpec
\* The Msgs the view emits: new_words_page while no game is started,
\* game_page and print_card while one is; the futures of dropped files end at
\* any time.
ViewNewCard == ~game_started /\ NewCardEmpty(MaxIds)
ViewNewCardDone == NewCardOnePhoto(MaxIds)
ViewIngestAbandoned == IngestFail
ViewUpdateCardText ==
    /\ ~game_started
    /\ \E id \in DOMAIN words_list, text \in Texts : UpdateCardTextMsg(id, text)
ViewDeleteCard ==
    /\ ~game_started
    /\ \E id \in DOMAIN words_list : DeleteCardMsg(id)
ViewGuessCard ==
    /\ game_started
    /\ \E index \in 0..(Len(board) - 1) :
          /\ ~ShowCard(board[index + 1])
          /\ GuessCardMsg(index)
ViewResetClick ==
    /\ game_started
    /\ \E i \in 1..Len(board) : ShowCard(board[i])
    /\ ResetClickMsg
ViewStartGame == StartGameMsg
ViewExitGame == ExitGameMsg
ViewDrop == ~game_started /\ \E file_list \in FileLists : DropMsg(file_list, MaxInflight)

ViewNext ==
    \/ ViewNewCard
    \/ ViewNewCardDone
    \/ ViewIngestAbandoned
    \/ ViewUpdateCardText
    \/ ViewDeleteCard
    \/ ViewGuessCard
    \/ ViewResetClick
    \/ ViewStartGame
    \/ ViewExitGame
    \/ ViewDrop

ViewSpec == Init /\ [][ViewNext]_vars

\* ---------------------------------------------------------------- DeckSpec
\* The session as the Deck Store sees it: the Msgs of new_words_page, the two
\* buttons of game_page and the futures of dropped files. The cards of the
\* board are not clicked (GuessCard and ResetClick write board, last and
\* needs_reset only, which no action here reads).
DeckNewCard == ~game_started /\ NewCardEmpty(MaxDeck)
DeckNewCardDone == NewCardOnePhoto(MaxDeck)
DeckIngestAbandoned == IngestFail
DeckUpdateCardText ==
    /\ ~game_started
    /\ \E id \in DOMAIN words_list, text \in Texts : UpdateCardTextMsg(id, text)
DeckDeleteCard ==
    /\ ~game_started
    /\ \E id \in DOMAIN words_list : DeleteCardMsg(id)
DeckDrop == ~game_started /\ \E file_list \in FileLists : DropMsg(file_list, MaxInflight)
DeckStartGame == StartGameMsg
DeckExitGame == ExitGameMsg

DeckNext ==
    \/ DeckNewCard
    \/ DeckNewCardDone
    \/ DeckIngestAbandoned
    \/ DeckUpdateCardText
    \/ DeckDeleteCard
    \/ DeckDrop
    \/ DeckStartGame
    \/ DeckExitGame

DeckSpec == Init /\ [][DeckNext]_vars

\* ---------------------------------------------------------------- BuildSpec
\* Board construction as a function of the deck: the deck is drawn from the
\* decks of at most MaxDeck cards that the Deck Store operations produce, and
\* the Start Game button of new_words_page is pressed.
CardContents ==
    [text : {None, Some("cat")}, photo : {None, Some(PhotoUrl)}]

Decks(ids) ==
    UNION {{[k \in D |-> Card(k, c[k].text, c[k].photo)] : c \in [D -> CardContents]}
             : D \in SUBSET ids}

BuildInit ==
    /\ game_started = FALSE
    /\ nextUlid \in 0..MaxDeck
    /\ words_list \in Decks(0..(nextUlid - 1))
    /\ board = <<>>
    /\ last = None
    /\ needs_reset = FALSE
    /\ inflight = 0
    /\ panicked = FALSE
    /\ msg = "Init"

BuildStartGame == ~game_started /\ StartGameMsg

BuildNext == BuildStartGame

BuildSpec == BuildInit /\ [][BuildNext]_vars

\* ---------------------------------------------------------------- StoreSpec
\* The Deck Store alone: the Msgs that read or write words_list only, called
\* with any id and any text (ids that were never handed out or were deleted
\* included), and the futures of dropped files, two of which run at one time.
\* A photo is PhotoUrl when the file was written in full and EmptyPhotoUrl when
\* write_to failed; the other specifications do not tell the two apart (there
\* PhotoUrl stands for any data URI).
StoreIds == 0..MaxDeck

StoreNewCard == NewCardEmpty(MaxDeck)
StoreNewCardDone == NewCardOnePhoto(MaxDeck)
StoreNewCardEncodeFailed == NewCardEncodeFailed(MaxDeck)
StoreIngestAbandoned == IngestFail
StoreUpdateCardText ==
    \E id \in StoreIds, text \in StoreTexts : UpdateCardTextMsg(id, text)
StoreDeleteCard == \E id \in StoreIds : DeleteCardMsg(id)
StoreDrop ==
    \E file_list \in FileListsUpTo(MaxStoreInflight) :
       DropMsg(file_list, MaxStoreInflight)

StoreNext ==
    \/ StoreNewCard
    \/ StoreNewCardDone
    \/ StoreNewCardEncodeFailed
    \/ StoreIngestAbandoned
    \/ StoreUpdateCardText
    \/ StoreDeleteCard
    \/ StoreDrop

StoreSpec == Init /\ [][StoreNext]_vars

\* ---------------------------------------------------------------- claims
\* The sub-states of a session, as the fields of Model encode them.
NoPending == last = None /\ ~needs_reset
OnePending == last # None /\ ~needs_reset
MismatchShown == needs_reset

\* The positions of the board that hold the card id.
SlotsOf(b, id) == {i \in 1..Len(b) : b[i].card.id = id}

\* A card with text or photo set, and the eligible cards of a deck.
HasContent(card) == card.text # None \/ card.photo # None
EligibleIds(map) == {k \in DOMAIN map : HasContent(map[k])}

\* Every matched slot is face-up.
MatchedRevealed ==
    \A i \in 1..Len(board) : board[i].matched => board[i].displayed = FaceUp

\* C1 as stated: when every matched slot is revealed, a guess call leaves every
\* matched slot revealed and changes neither flag of a matched slot.
C1_MatchedStaysRevealed ==
    [][(GuessCard /\ MatchedRevealed) =>
          /\ MatchedRevealed'
          /\ \A i \in 1..Len(board) :
                board[i].matched =>
                   /\ board'[i].matched
                   /\ board'[i].displayed = board[i].displayed]_vars

\* C1 as amended: a guess call never takes a matched flag back and a slot is
\* face-up when it becomes matched, so a matched slot stays shown; the
\* displayed flag of a matched slot goes back to face-down only by a guess that
\* acknowledges a mismatch.
C1_MatchedStaysMatched ==
    [][GuessCard =>
          \A i \in 1..Len(board) :
             /\ board[i].matched => board'[i].matched /\ ShowCard(board'[i])
             /\ (~board[i].matched /\ board'[i].matched)
                   => board'[i].displayed = FaceUp
             /\ (board[i].matched /\ board[i].displayed = FaceUp
                   /\ board'[i].displayed = FaceDown) => needs_reset]_vars

\* A matched slot that a mismatch acknowledgment has turned face-down.
C1_Witness ==
    /\ msg = "GuessCard"
    /\ ~panicked
    /\ \E i \in 1..Len(board) : board[i].matched /\ board[i].displayed = FaceDown

\* C2: a StartGame that passes the size guard ends in 'Playing, no pending
\* guess': every slot face-down and unmatched, last empty, needs_reset false.
C2_StartGameNoPending ==
    [][(msg' = "StartGame" /\ ~TooFewCards(words_list)) =>
          /\ last' = None
          /\ ~needs_reset'
          /\ \A i \in 1..Len(board') :
                board'[i].displayed = FaceDown /\ ~board'[i].matched]_vars

\* C3: StartGame in Deck-editing on a deck with fewer than 2 eligible cards
\* changes nothing: game_started stays false and the board stays empty.
C3_TooFewEligibleNoOp ==
    [][(msg' = "StartGame" /\ ~game_started
          /\ Cardinality(EligibleIds(words_list)) < 2) =>
          /\ ~game_started'
          /\ board' = <<>>
          /\ UNCHANGED <<words_list, last, needs_reset>>]_vars

\* C4: StartGame on a deck with N >= 2 eligible cards builds a board of 2N
\* slots in which every eligible card's id is in exactly two slots and no slot
\* holds an ineligible card, whatever permutation the shuffle picks.
C4_TwoSlotsPerEligibleCard ==
    [][(msg' = "StartGame" /\ Cardinality(EligibleIds(words_list)) >= 2) =>
          /\ game_started'
          /\ Len(board') = 2 * Cardinality(EligibleIds(words_list))
          /\ \A k \in EligibleIds(words_list) :
                Cardinality(SlotsOf(board', k)) = 2
          /\ \A i \in 1..Len(board') :
                /\ board'[i].card.id \in EligibleIds(words_list)
                /\ board'[i].card = words_list[board'[i].card.id]]_vars

\* A board of two eligible cards built from a deck that also holds a card with
\* neither text nor photo.
C4_Witness ==
    /\ msg = "StartGame"
    /\ game_started
    /\ Cardinality(EligibleIds(words_list)) = 2
    /\ Cardinality(DOMAIN words_list) = 3
    /\ Len(board) = 4

\* C5: with one guess pending, a guess on a slot of the remembered card sets
\* both slots of that card face-up and matched, clears last, leaves
\* needs_reset false and leaves every slot of every other card as it was.
C5_MatchMarksBothSlots ==
    [][\A index \in Indices :
          (OnePending /\ index < Len(board)
             /\ board[index + 1].card.id = last[1]
             /\ GuessCardMsg(index)) =>
             /\ Cardinality(SlotsOf(board, last[1])) = 2
             /\ Len(board') = Len(board)
             /\ \A i \in 1..Len(board) :
                   IF i \in SlotsOf(board, last[1])
                   THEN /\ board'[i].displayed = FaceUp
                        /\ board'[i].matched
                        /\ board'[i].card = board[i].card
                   ELSE board'[i] = board[i]
             /\ last' = None
             /\ ~needs_reset']_vars

\* The two slots of one card matched and face-up after a guess, next to a
\* card that is still face-down and unmatched.
C5_Witness ==
    /\ msg = "GuessCard"
    /\ NoPending
    /\ \E i, j, k \in 1..Len(board) :
          /\ i # j
          /\ board[i].card.id = board[j].card.id
          /\ board[i].matched /\ board[i].displayed = FaceUp
          /\ board[j].matched /\ board[j].displayed = FaceUp
          /\ ~board[k].matched /\ board[k].displayed = FaceDown

\* C6: with one guess pending, a guess on a slot of another card turns the
\* clicked slot face-up and changes no other slot (a revealed pending slot stays
\* revealed), changes no matched flag (the two slots stay unmatched), keeps
\* last and sets needs_reset.
C6_MismatchShowsClickedSlot ==
    [][\A index \in Indices :
          (OnePending /\ index < Len(board)
             /\ board[index + 1].card.id # last[1]
             /\ GuessCardMsg(index)) =>
             /\ Len(board') = Len(board)
             /\ board'[index + 1].displayed = FaceUp
             /\ \A i \in 1..Len(board) :
                   /\ i # index + 1 => board'[i] = board[i]
                   /\ board'[i].matched = board[i].matched
                   /\ board'[i].card = board[i].card
                   /\ (i \in SlotsOf(board, last[1])
                         /\ board[i].displayed = FaceUp)
                         => board'[i].displayed = FaceUp
             /\ last' = last
             /\ needs_reset']_vars

\* Mismatch shown: the pending slot and a slot of another card are face-up and
\* unmatched.
C6_Witness ==
    /\ msg = "GuessCard"
    /\ MismatchShown
    /\ last # None
    /\ \E i, j \in 1..Len(board) :
          /\ board[i].card.id = last[1]
          /\ board[j].card.id # last[1]
          /\ board[i].displayed = FaceUp /\ ~board[i].matched
          /\ board[j].displayed = FaceUp /\ ~board[j].matched

\* C7: with a mismatch shown, a guess is an acknowledgment whatever its index
\* (the step is the step of every index, in range or not): every slot is
\* face-down afterwards, no slot is turned up, no matched flag changes, last
\* and needs_reset are cleared and update does not panic.
C7_AcknowledgeIgnoresIndex ==
    [][(MismatchShown /\ GuessCard) =>
          /\ \A index \in Indices : GuessCardMsg(index)
          /\ Len(board') = Len(board)
          /\ \A i \in 1..Len(board) :
                /\ board'[i].displayed = FaceDown
                /\ board'[i].matched = board[i].matched
                /\ board'[i].card = board[i].card
          /\ last' = None
          /\ ~needs_reset'
          /\ ~panicked']_vars

\* The state after an acknowledgment: a guess was handled and every slot of
\* the board is face-down.
C7_Witness ==
    /\ msg = "GuessCard"
    /\ ~panicked
    /\ game_started
    /\ Len(board) > 0
    /\ \A i \in 1..Len(board) : board[i].displayed = FaceDown
    /\ NoPending

\* C8: with no guess pending, a guess with an index of the board turns that
\* slot face-up, remembers its card id in last, changes no matched flag and
\* no other slot, and leaves needs_reset false.
C8_FirstGuessIsRemembered ==
    [][\A index \in Indices :
          (NoPending /\ index < Len(board) /\ GuessCardMsg(index)) =>
             /\ Len(board') = Len(board)
             /\ board'[index + 1].displayed = FaceUp
             /\ \A i \in 1..Len(board) :
                   /\ i # index + 1 => board'[i] = board[i]
                   /\ board'[i].matched = board[i].matched
                   /\ board'[i].card = board[i].card
             /\ last' = Some(board[index + 1].card.id)
             /\ ~needs_reset'
             /\ ~panicked']_vars

\* One pending guess: exactly one slot is face-up, it holds the remembered
\* card, and the board has a slot of another card.
C8_Witness ==
    /\ msg = "GuessCard"
    /\ ~panicked
    /\ OnePending
    /\ \E i \in 1..Len(board) :
          /\ board[i].displayed = FaceUp
          /\ board[i].card.id = last[1]
          /\ \A j \in 1..Len(board) : j # i => board[j].displayed = FaceDown
    /\ \E k \in 1..Len(board) : board[k].card.id # last[1]

\* C9: after ExitGame the board is empty, game_started is false, last and
\* needs_reset are cleared and the Deck Store is empty.
C9_ExitGameClearsAll ==
    msg = "ExitGame" =>
       /\ board = <<>>
       /\ ~game_started
       /\ last = None
       /\ ~needs_reset
       /\ DOMAIN words_list = {}

\* ExitGame handled after both ids of the behaviour were given to cards.
C9_Witness ==
    /\ msg = "ExitGame"
    /\ nextUlid = MaxIds
    /\ DOMAIN words_list = {}
    /\ board = <<>>

\* C10: a step that starts and ends with a game running leaves the Deck
\* Store as it was.
C10_DeckFrozenWhilePlaying ==
    [][(game_started /\ game_started') => words_list' = words_list]_vars

\* The number of cards of a deck.
Size(map) == Cardinality(DOMAIN map)

\* Every card of the deck map is in the deck next, as it was.
KeepsCards(map, next) ==
    \A k \in DOMAIN map : k \in DOMAIN next /\ next[k] = map[k]

\* The ids handed out so far that the deck does not hold.
DeletedIds(map, handedOut) == {k \in 0..(handedOut - 1) : k \notin DOMAIN map}

\* C11: in a sequence of adds and deletes from the empty deck every add makes
\* the deck one card larger and keeps the cards it had, every delete of an id
\* of the deck makes it one card smaller by taking that card out and no other,
\* and a delete of an id that is not in the deck (never added, or deleted
\* before) leaves the deck as it was; so the size of the deck is the number of
\* adds minus the number of deletes of an id that was present.
C11_SizeIsAddsMinusDeletes ==
    [][/\ (StoreNewCard \/ StoreNewCardDone \/ StoreNewCardEncodeFailed) =>
             /\ Size(words_list') = Size(words_list) + 1
             /\ KeepsCards(words_list, words_list')
       /\ \A id \in StoreIds :
             DeleteCardMsg(id) =>
                IF id \in DOMAIN words_list
                THEN /\ Size(words_list') = Size(words_list) - 1
                     /\ id \notin DOMAIN words_list'
                     /\ KeepsCards(words_list', words_list)
                ELSE words_list' = words_list
       /\ Size(words_list') =
             nextUlid' - Cardinality(DeletedIds(words_list', nextUlid'))]_vars

\* A delete was handled after MaxDeck adds and one card is left.
C11_Witness ==
    /\ msg = "DeleteCard"
    /\ nextUlid = MaxDeck
    /\ Size(words_list) = 1

\* C12: setCardText with the empty text, or with an id that is not in the
\* deck, leaves the whole deck as it was, whatever text the card had; with a
\* non-empty text and an id of the deck it sets the text of that card and
\* changes nothing else: the keys of the deck, the photo and id of the card
\* and every other card stay.
C12_SetTextFrame ==
    [][\A id \in StoreIds, text \in StoreTexts :
          UpdateCardTextMsg(id, text) =>
             IF text = "" \/ id \notin DOMAIN words_list
             THEN words_list' = words_list
             ELSE /\ DOMAIN words_list' = DOMAIN words_list
                  /\ words_list'[id].text = Some(text)
                  /\ words_list'[id].photo = words_list[id].photo
                  /\ words_list'[id].id = words_list[id].id
                  /\ \A k \in DOMAIN words_list \ {id} :
                        words_list'[k] = words_list[k]]_vars

\* A text was set; the deck holds a card with a photo and the text "dog" and
\* another card with the text "cat".
C12_Witness ==
    /\ msg = "UpdateCardText"
    /\ \E k, j \in DOMAIN words_list :
          /\ k # j
          /\ words_list[k].text = Some("dog")
          /\ words_list[k].photo = Some(PhotoUrl)
          /\ words_list[j].text = Some("cat")

\* A step that handles StartGame, and one that handles ExitGame (a future that
\* ends without a Msg leaves msg as it was and takes one from inflight).
StartStep == msg' = "StartGame" /\ inflight' = inflight
ExitStep == msg' = "ExitGame" /\ inflight' = inflight

\* The slots that are face-up and not matched.
RevealedUnmatched ==
    {i \in 1..Len(board) : board[i].displayed = FaceUp /\ ~board[i].matched}

\* With a pending guess and no mismatch shown exactly one non-matched slot is
\* revealed and it holds the remembered card; with no pending guess and no
\* mismatch shown no non-matched slot is revealed.
PendingShown ==
    /\ OnePending =>
          \E i \in 1..Len(board) :
             /\ RevealedUnmatched = {i}
             /\ board[i].card.id = last[1]
    /\ NoPending => RevealedUnmatched = {}

\* C13: with the clicks routed as the view routes them, PendingShown holds
\* when a game is started from the editing page and every step of that game
\* other than the next StartGame or ExitGame keeps it.
C13_PendingSlotRevealed ==
    [][/\ (~game_started /\ StartStep /\ game_started') => PendingShown'
       /\ (game_started /\ PendingShown /\ ~StartStep /\ ~ExitStep) =>
             PendingShown']_vars

\* A guess was handled in a game with one pair matched; it is pending and its
\* slot is the one revealed slot that is not matched.
C13_Witness ==
    /\ game_started
    /\ msg = "GuessCard"
    /\ OnePending
    /\ \E i \in 1..Len(board) : board[i].matched
    /\ \E i \in 1..Len(board) :
          RevealedUnmatched = {i} /\ board[i].card.id = last[1]

\* C14: a guess handled with no mismatch shown and an index that is not a
\* position of the board (every index when the board is empty, as on the
\* editing page) changes nothing of the session and the engine does not fail.
C14_OutOfRangeGuessNoOp ==
    [][\A index \in Indices :
          (~needs_reset /\ index >= Len(board) /\ GuessCardMsg(index)) =>
             /\ ~panicked'
             /\ UNCHANGED <<game_started, words_list, board, last, needs_reset>>]_vars

\* A step that handles GuessCard, and one that handles ResetClick.
GuessStep == msg' = "GuessCard" /\ inflight' = inflight
ResetStep == msg' = "ResetClick" /\ inflight' = inflight

\* C15: a step of StartGame, GuessCard or ResetClick leaves the deck as it
\* was; a step of GuessCard or ResetClick leaves the length of the board and
\* the card at every position as they were.
C15_DeckAndBoardCardsKept ==
    [][/\ (StartStep \/ GuessStep \/ ResetStep) => words_list' = words_list
       /\ (GuessStep \/ ResetStep) =>
             /\ Len(board') = Len(board)
             /\ \A i \in 1..Len(board) : board'[i].card = board[i].card]_vars

\* A ResetClick was handled on a board of four slots with a matched pair while
\* the deck holds the two cards.
C15_Witness ==
    /\ msg = "ResetClick"
    /\ Len(board) = 4
    /\ Size(words_list) = 2
    /\ \E i \in 1..Len(board) : board[i].matched

\* C16: whatever the order in which the ingestions of dropped files end, an
\* ingestion that succeeds adds exactly one card, with its photo set and no
\* text, under a new id and keeps the cards of the deck; an ingestion that
\* fails (its file was not decoded or not encoded) or is abandoned adds
\* nothing; starting ingestions adds nothing.
C16_IngestionAddsOneCardOrNothing ==
    [][/\ StoreNewCardDone =>
             /\ Size(words_list') = Size(words_list) + 1
             /\ KeepsCards(words_list, words_list')
             /\ \E k \in DOMAIN words_list' \ DOMAIN words_list :
                   /\ words_list'[k].photo = Some(PhotoUrl)
                   /\ words_list'[k].text = None
       /\ (StoreNewCardEncodeFailed \/ StoreIngestAbandoned \/ StoreDrop) =>
             words_list' = words_list]_vars

\* C17: a guess on the slot of the pending first guess (the one slot that is
\* revealed and not matched, holding the remembered card) does not mark that
\* slot matched: the same position guessed twice in a row is no pair.
C17_SameSlotTwiceNoMatch ==
    [][\A index \in Indices :
          (/\ OnePending
           /\ index < Len(board)
           /\ RevealedUnmatched = {index + 1}
           /\ board[index + 1].card.id = last[1]
           /\ GuessCardMsg(index)) =>
             ~board'[index + 1].matched]_vars

\* C18: a step of ResetClick, in whatever sub-state it is handled, leaves every
\* slot face-down with its matched flag as it was, no pending guess and no
\* mismatch shown; its result is a fixed point of the reset, so a second
\* ResetClick changes nothing.
C18_ResetClickIdempotent ==
    [][ResetStep =>
          /\ Len(board') = Len(board)
          /\ \A i \in 1..Len(board) :
                /\ board'[i].displayed = FaceDown
                /\ board'[i].matched = board[i].matched
          /\ last' = None
          /\ ~needs_reset'
          /\ FaceDownAll(board') = board']_vars

\* A ResetClick was handled in a game with a matched pair and a pair that is
\* not matched.
C18_Witness ==
    /\ msg = "ResetClick"
    /\ game_started
    /\ last = None
    /\ ~needs_reset
    /\ \E i, j \in 1..Len(board) : board[i].matched /\ ~board[j].matched
    /\ \A i \in 1..Len(board) : board[i].displayed = FaceDown

\* The matched slots of the board.
MatchedSlots == {i \in 1..Len(board) : board[i].matched}

\* C19: in every reachable state two slots of the board that hold the same
\* deck card have the same matched flag, and the number of matched slots is
\* even.
C19_TwinsMatchedTogether ==
    /\ \A i, j \in 1..Len(board) :
          board[i].card.id = board[j].card.id =>
             board[i].matched = board[j].matched
    /\ Cardinality(MatchedSlots) % 2 = 0

\* A guess was handled; the two slots of one card are matched and the two of
\* the other card are not.
C19_Witness ==
    /\ msg = "GuessCard"
    /\ Len(board) = 4
    /\ Cardinality(MatchedSlots) = 2
    /\ \E i, j \in MatchedSlots : i # j /\ board[i].card.id = board[j].card.id

\* C20: while one board is in play no step of GuessCard or ResetClick takes a
\* matched flag from true to false: the set of matched slots only grows.
C20_MatchedNeverCleared ==
    [][(GuessStep \/ ResetStep) =>
          /\ Len(board') = Len(board)
          /\ \A i \in 1..Len(board) : board[i].matched => board'[i].matched]_vars

\* A guess was handled and every slot of a board of four is matched: the
\* second pair was matched while the first stayed matched.
C20_Witness ==
    /\ msg = "GuessCard"
    /\ Len(board) = 4
    /\ \A i \in 1..Len(board) : board[i].matched
====
